---- MODULE Spec2Model ----
(***************************************************************************)
(* A model of fast_vector<T> (src/fast_vector.h): two vector objects "a"   *)
(* and "b" over one heap of raw regions.  The element type is either       *)
(* trivial (std::is_trivial_v<T>, the memcpy/realloc branches) or          *)
(* non-trivial (the placement-new/destructor branches); which one is fixed *)
(* at Init, as it is fixed at compile time.                                *)
(*                                                                         *)
(* A heap region is a sequence of slots.  A slot holds an element value or *)
(* Raw: storage that holds no object (never constructed, or destroyed) and *)
(* whose bits are indeterminate.  Storage outside [0, m_size) is kept as   *)
(* Raw for both kinds of T: the class never reads it as a value.  Storage  *)
(* of a trivial T that enters [0, m_size) unwritten holds some value of T. *)
(***************************************************************************)
EXTENDS Integers, Sequences, FiniteSets, TLC

\* ------------------------------------------------------------------ bounds
MaxCap == 4       \* largest capacity a vector is driven to while it is the
                  \* only vector alive
PairCap == 2      \* largest capacity of either vector while both are alive
MaxVal == 1       \* element values are 0..MaxVal

\* ------------------------------------------------------- program constants
grow_factor == 2

Objs == {"a", "b"}
Values == 0..MaxVal
DefaultVal == 0   \* the value "new (p) T" gives a non-trivial T
Raw == -1         \* a slot that holds no object / indeterminate bits
NULL == 0         \* nullptr
NRegions == Cardinality(Objs) + 1   \* one region per vector and one in transit
RegionIds == 1..NRegions
FreeRegion == [live |-> FALSE, mem |-> <<>>]
Mixed == <<Raw>>  \* history marker: not a pure push_back history
NotRanged == [o \in Objs |-> "no"]
NoResult == [kind |-> "none", value |-> Raw]

VARIABLES
    trivial,      \* std::is_trivial_v<T>
    alive,        \* alive[o]: o is between its constructor and its destructor
    m_data,       \* m_data[o]: region id or NULL
    m_size,       \* m_size[o]
    m_capacity,   \* m_capacity[o]
    heap,         \* heap[r] = [live, mem]
    leaked,       \* the last step left a live region unreachable
    fault,        \* first undefined behaviour executed, "none" if none
    hist,         \* hist[o]: values pushed since o was default-constructed,
                  \* or Mixed once any other operation touched o
    ranged        \* ranged[o]: "built" when the last step constructed o from a
                  \* range, "pushed" when the last step was the push_back
                  \* that followed that construction, "no" otherwise; kept
                  \* for a vector constructed while no other one is alive
VARIABLE
    got           \* what the last step, when it was at(pos), gave its caller:
                  \* the element returned or the exception thrown

VARIABLE
    failed        \* the operation that executed the undefined behaviour in
                  \* fault, "none" if none

vars == <<trivial, alive, m_data, m_size, m_capacity, heap, leaked, fault, hist,
          ranged, got, failed>>

\* ------------------------------------------------------------ sequences
Min(x, y) == IF x < y THEN x ELSE y

Prefix(s, n) == SubSeq(s, 1, n)

Fill(n, v) == [i \in 1..n |-> v]

SeqsUpTo(n) == UNION {[1..k -> Values] : k \in 0..n}

\* ------------------------------------------------------------ the machine
\* One vector together with the heap it runs on.
View(o) == [data |-> m_data[o], size |-> m_size[o], cap |-> m_capacity[o],
            heap |-> heap, fault |-> fault]

Fault(S, f) == IF S.fault = "none" THEN [S EXCEPT !.fault = f] ELSE S

Alloc(S) == IF S.data = NULL THEN 0 ELSE Len(S.heap[S.data].mem)

\* The values begin()..end() iterates over: m_data[0 .. m_size).
Slot(S, i) ==
    IF S.data # NULL /\ i < Len(S.heap[S.data].mem)
    THEN S.heap[S.data].mem[i + 1] ELSE Raw

Elems(S) == [i \in 1..S.size |-> Slot(S, i - 1)]

\* Reading count slots from m_data.
ReadCheck(S, count) ==
    IF count = 0 THEN S
    ELSE IF S.data = NULL THEN Fault(S, "null_deref")
    ELSE IF ~S.heap[S.data].live THEN Fault(S, "use_after_free")
    ELSE IF count > Alloc(S) THEN Fault(S, "oob_read")
    ELSE S

HasFree(h) == \E r \in RegionIds : ~h[r].live

FreeId(h) == CHOOSE r \in RegionIds :
                ~h[r].live /\ \A q \in RegionIds : q < r => h[q].live

\* std::malloc(sizeof(T) * n).  malloc(0) may return nullptr or a region of
\* no slots: nullOnZero chooses.  Sets S.data to the result.
malloc(S, n, nullOnZero) ==
    IF n = 0 /\ nullOnZero THEN [S EXCEPT !.data = NULL]
    ELSE IF ~HasFree(S.heap) THEN [Fault(S, "alloc_failed") EXCEPT !.data = NULL]
    ELSE LET r == FreeId(S.heap)
         IN [S EXCEPT !.data = r,
                      !.heap[r] = [live |-> TRUE, mem |-> Fill(n, Raw)]]

\* std::free(p)
free(S, p) ==
    IF p = NULL THEN S
    ELSE IF ~S.heap[p].live THEN Fault(S, "double_free")
    ELSE [S EXCEPT !.heap[p] = FreeRegion]

\* std::realloc(m_data, sizeof(T) * n), n > 0: the block keeps its first
\* min(old, n) slots and either stays where it is or moves.
realloc(S, n, moves) ==
    IF S.data = NULL THEN malloc(S, n, FALSE)
    ELSE IF ~S.heap[S.data].live THEN Fault(S, "use_after_free")
    ELSE LET old == S.heap[S.data].mem
             new == [i \in 1..n |-> IF i <= Len(old) THEN old[i] ELSE Raw]
         IN IF ~moves THEN [S EXCEPT !.heap[S.data].mem = new]
            ELSE IF ~HasFree(S.heap) THEN Fault(S, "alloc_failed")
            ELSE LET r == FreeId(S.heap)
                 IN [S EXCEPT !.data = r,
                              !.heap[r] = [live |-> TRUE, mem |-> new],
                              !.heap[S.data] = FreeRegion]

\* A write of v to slot i of region p: "p[i] = v" or "new (p + i) T(v)".
StoreAt(S, p, i, v) ==
    IF S.fault # "none" THEN S
    ELSE IF p = NULL THEN Fault(S, "null_deref")
    ELSE IF ~S.heap[p].live THEN Fault(S, "use_after_free")
    ELSE IF i >= Len(S.heap[p].mem) THEN Fault(S, "oob_write")
    ELSE [S EXCEPT !.heap[p].mem[i + 1] = v]

\* Writes of vals to slots off, off + 1, ... of region p.
RECURSIVE StoreRange(_, _, _, _)
StoreRange(S, p, off, vals) ==
    IF vals = <<>> THEN S
    ELSE StoreRange(StoreAt(S, p, off, Head(vals)), p, off + 1, Tail(vals))

\* Slots [b, e) of m_data stop holding values.
Forget(S, b, e) ==
    IF S.data = NULL THEN S
    ELSE [S EXCEPT !.heap[S.data].mem =
            [i \in 1..Len(@) |-> IF b < i /\ i <= e THEN Raw ELSE @[i]]]

\* ------------------------------------------------------- helper functions
\* construct_range(begin, end): default-constructs slots [b, e) of m_data.
construct_range(S, b, e) == StoreRange(S, S.data, b, Fill(e - b, DefaultVal))

\* std::memcpy(p + off, vals, sizeof(T) * Len(vals)): the trivial branches.
memcpy(S, vals, p, off) == StoreRange(S, p, off, vals)

\* copy_range(begin, end, dest): copy-constructs vals into p[off ..].
\* Copy-constructing from a slot that holds no object is undefined behaviour.
copy_range(S, vals, p, off) ==
    IF \E i \in 1..Len(vals) : vals[i] = Raw
    THEN Fault(S, "raw_read")
    ELSE StoreRange(S, p, off, vals)

\* destruct_range(begin, end): runs ~T() on slots [b, e) of m_data.
\* Destroying a slot that holds no object is undefined behaviour.
destruct_range(S, b, e) ==
    IF b >= e \/ S.fault # "none" THEN S
    ELSE IF S.data = NULL THEN Fault(S, "null_deref")
    ELSE IF ~S.heap[S.data].live THEN Fault(S, "use_after_free")
    ELSE IF \E i \in b..(e - 1) : Slot(S, i) = Raw THEN Fault(S, "bad_destroy")
    ELSE Forget(S, b, e)

\* find_item(begin, end, value): the positions the scan can stop at, 0-based,
\* Len(elems) standing for end.  Comparing an indeterminate slot with value
\* can go either way.
find_item(elems, value) ==
    {p \in 0..Len(elems) :
        /\ \A j \in 1..p : elems[j] # value
        /\ p < Len(elems) => elems[p + 1] \in {value, Raw}}

\* ------------------------------------------------------ member functions
\* The storage move shared by reserve and shrink_to_fit: realloc for a
\* trivial T; malloc, copy_range, destruct_range, free for a non-trivial T.
relocate(S, n, moves) ==
    IF trivial THEN realloc(S, n, moves)
    ELSE LET N == malloc(S, n, FALSE)
             C == copy_range(N, Elems(S), N.data, 0)
             D == destruct_range([C EXCEPT !.data = S.data], 0, S.size)
             F == free(D, S.data)
         IN [F EXCEPT !.data = N.data]

\* reserve(new_cap), called with new_cap > m_capacity.
reserve(S, new_cap, moves) ==
    [relocate(S, new_cap, moves) EXCEPT !.cap = new_cap]

\* shrink_to_fit()
shrink_to_fit(S, moves) ==
    IF S.size # 0 /\ S.size < S.cap THEN relocate(S, S.size, moves) ELSE S

\* clear()
clear(S) ==
    [(IF trivial THEN Forget(S, 0, S.size) ELSE destruct_range(S, 0, S.size))
        EXCEPT !.size = 0]

\* push_back growing to m_capacity * grow_factor, without the + 1.
push_back_no_progress(S, value, moves) ==
    LET G == IF S.size = S.cap /\ S.cap > 0
             THEN reserve(S, S.cap * grow_factor, moves) ELSE S
        W == StoreAt(G, G.data, G.size, value)
    IN [W EXCEPT !.size = @ + 1]

\* push_back(const T&) and push_back(T&&)
push_back(S, value, moves) ==
    LET G == IF S.size = S.cap
             THEN reserve(S, S.cap * grow_factor + 1, moves) ELSE S
        W == StoreAt(G, G.data, G.size, value)
    IN [W EXCEPT !.size = @ + 1]

\* emplace_back(args...), which static_assert restricts to a non-trivial T
emplace_back(S, value, moves) ==
    LET G == IF S.size = S.cap
             THEN reserve(S, S.cap * grow_factor + 1, moves) ELSE S
        W == StoreAt(G, G.data, G.size, value)
    IN [W EXCEPT !.size = @ + 1]

RECURSIVE push_each(_, _, _)
push_each(S, values, moves) ==
    IF values = <<>> THEN S
    ELSE push_each(push_back(S, Head(values), moves), Tail(values), moves)

\* append(values, count)
append(S, values, moves) ==
    LET count == Len(values)
    IN IF S.size + count >= S.cap
       THEN push_each(S, values, moves)
       ELSE [(IF trivial THEN memcpy(S, values, S.data, S.size)
                         ELSE copy_range(S, values, S.data, S.size))
                EXCEPT !.size = @ + count]

\* pop_back(), called with m_size > 0
pop_back(S) ==
    [(IF trivial THEN Forget(S, S.size - 1, S.size)
                 ELSE destruct_range(S, S.size - 1, S.size))
        EXCEPT !.size = @ - 1]

\* resize that grows the storage one element too late.
resize_late_growth(S, count, moves) ==
    IF count = S.size THEN S
    ELSE LET G == IF count > S.cap + 1 THEN reserve(S, count, moves) ELSE S
             H == IF trivial
                  THEN (IF count < G.size THEN Forget(G, count, G.size) ELSE G)
                  ELSE IF count > G.size
                       THEN construct_range(G, G.size, count)
                       ELSE destruct_range(G, count, G.size)
         IN [H EXCEPT !.size = count]

\* resize that destroys the tail but keeps the old size.
resize_keeps_size(S, count, moves) ==
    IF count = S.size THEN S
    ELSE LET G == IF count > S.cap THEN reserve(S, count, moves) ELSE S
             H == IF trivial
                  THEN (IF count < G.size THEN Forget(G, count, G.size) ELSE G)
                  ELSE IF count > G.size
                       THEN construct_range(G, G.size, count)
                       ELSE destruct_range(G, count, G.size)
         IN IF count < S.size THEN H ELSE [H EXCEPT !.size = count]

\* resize(count)
resize(S, count, moves) ==
    IF count = S.size THEN S
    ELSE LET G == IF count > S.cap THEN reserve(S, count, moves) ELSE S
             H == IF trivial
                  THEN (IF count < G.size THEN Forget(G, count, G.size) ELSE G)
                  ELSE IF count > G.size
                       THEN construct_range(G, G.size, count)
                       ELSE destruct_range(G, count, G.size)
         IN [H EXCEPT !.size = count]

\* The bytes memcpy(position, position + 1, count) leaves in position[0 ..
\* count): the two ranges overlap when count >= 2, which memcpy does not
\* define; it then leaves either the bytes of a front-to-back copy or those
\* of a back-to-front copy.
ShiftDown(tail, backward) ==
    IF Len(tail) >= 2 /\ backward
    THEN Fill(Len(tail), tail[Len(tail)])
    ELSE tail

\* erase(value) for a trivial T; position is where find_item stopped.
erase(S, position, backward) ==
    IF position < S.size
    THEN LET count == S.size - position - 1
             tail == [i \in 1..count |-> Slot(S, position + i)]
             R == ReadCheck(S, S.size)
             M == IF position < S.size - 1
                  THEN memcpy(R, ShiftDown(tail, backward), R.data, position)
                  ELSE R
         IN [Forget(M, S.size - 1, S.size) EXCEPT !.size = @ - 1]
    ELSE ReadCheck(S, S.size)

\* ~fast_vector()
destroy(S) ==
    IF S.data # NULL
    THEN free((IF trivial THEN S ELSE destruct_range(S, 0, S.size)), S.data)
    ELSE S

\* A range constructor that allocates the region and copies nothing into it.
construct_from_range_no_copy(S, values, nullOnZero) ==
    malloc([S EXCEPT !.size = Len(values), !.cap = Len(values)],
           Len(values), nullOnZero)

\* fast_vector(const T a[], const T b[]) with [a, b) = values
construct_from_range(S, values, nullOnZero) ==
    LET N == malloc([S EXCEPT !.size = Len(values), !.cap = Len(values)],
                    Len(values), nullOnZero)
    IN IF trivial THEN memcpy(N, values, N.data, 0)
                  ELSE copy_range(N, values, N.data, 0)

\* The body shared by fast_vector(const fast_vector&) and
\* operator=(const fast_vector&): other is the source as the body sees it
\* (the vector itself, after its fields were overwritten, when self is TRUE).
copy_from(S, other, self, nullOnZero) ==
    LET N == malloc([S EXCEPT !.size = other.size, !.cap = other.size],
                    other.size, nullOnZero)
        O == IF self THEN N ELSE [other EXCEPT !.heap = N.heap, !.fault = N.fault]
        R == ReadCheck(O, O.size)
        M == [N EXCEPT !.fault = R.fault]
    IN IF trivial THEN memcpy(M, Elems(O), N.data, 0)
                  ELSE copy_range(M, Elems(O), N.data, 0)

\* at(pos): the vector (its fault, when operator[] read what it must not)
\* and what the caller gets.
at(S, pos) ==
    IF pos >= S.size
    THEN [after |-> S, result |-> [kind |-> "range_error", value |-> Raw]]
    ELSE LET R == ReadCheck(S, pos + 1)
             T == IF R.fault = "none" /\ Slot(R, pos) = Raw
                  THEN Fault(R, "raw_read") ELSE R
         IN [after |-> T, result |-> [kind |-> "element", value |-> Slot(S, pos)]]

\* ------------------------------------------------------------- the state
Init ==
    /\ trivial \in BOOLEAN
    /\ alive = [o \in Objs |-> o = "a"]      \* "a" is default-constructed
    /\ m_data = [o \in Objs |-> NULL]
    /\ m_size = [o \in Objs |-> 0]
    /\ m_capacity = [o \in Objs |-> 0]
    /\ heap = [r \in RegionIds |-> FreeRegion]
    /\ leaked = FALSE
    /\ fault = "none"
    /\ hist = [o \in Objs |-> IF o = "a" THEN <<>> ELSE Mixed]
    /\ ranged = NotRanged
    /\ got = NoResult
    /\ failed = "none"

\* Region ids are names, not addresses, so the heap is kept in one
\* numbering: the region "a" points to is 1 and the region "b" points to is
\* the next one.
Renumber(d, r) ==
    IF r = NULL THEN NULL
    ELSE IF r = d["a"] THEN 1
    ELSE IF d["a"] = NULL THEN 1 ELSE 2

\* The capacity bound of the lifetimes al.
CapLimit(al) == IF \A o \in Objs : al[o] THEN PairCap ELSE MaxCap

\* The state after a step that leaves the fields d, s, c, the lifetimes al,
\* the heap h and the fault f.  A live region no vector points to any more
\* can never be released: it is taken off the heap and the step is recorded
\* in leaked.
\* A step whose allocation fails aborts the program and is not a step.
\* A step that executed undefined behaviour leaves no defined state behind:
\* only the fault (and the history of the vector the step ran on, and
\* whether the step was a read by at) is kept, and no action is enabled
\* after it.
\* rg is what the step makes of ranged and g what it gives its caller.
CommitGot(d, s, c, al, h, f, hs, rg, g) ==
    LET lost == {r \in RegionIds :
                    h[r].live /\ \A o \in Objs : ~(al[o] /\ d[o] = r)}
        kept == {d[o] : o \in Objs} \ {NULL}
    IN /\ f # "alloc_failed"
       /\ \A o \in Objs : s[o] <= CapLimit(al) /\ c[o] <= CapLimit(al)
       /\ fault' = f
       /\ UNCHANGED trivial
       /\ IF f # "none"
          THEN /\ m_data' = [o \in Objs |-> NULL]
               /\ m_size' = [o \in Objs |-> 0]
               /\ m_capacity' = [o \in Objs |-> 0]
               /\ alive' = [o \in Objs |-> FALSE]
               /\ heap' = [q \in RegionIds |-> FreeRegion]
               /\ leaked' = FALSE
               /\ hist' = [o \in Objs |-> IF hs[o] = hist[o] THEN Mixed ELSE hs[o]]
               /\ ranged' = NotRanged
               /\ got' = [g EXCEPT !.value = Raw]
          ELSE /\ m_data' = [o \in Objs |-> Renumber(d, d[o])]
               /\ m_size' = s
               /\ m_capacity' = c
               /\ alive' = al
               /\ heap' = [q \in RegionIds |->
                             IF \E r \in kept : Renumber(d, r) = q
                             THEN h[CHOOSE r \in kept : Renumber(d, r) = q]
                             ELSE FreeRegion]
               /\ leaked' = (lost # {})
               /\ hist' = hs
               /\ ranged' = rg
               /\ got' = g

Commit(d, s, c, al, h, f, hs, rg) == CommitGot(d, s, c, al, h, f, hs, rg, NoResult)

Install(d, s, c, al, h, f, hs) ==
    CommitGot(d, s, c, al, h, f, hs, NotRanged, NoResult)

\* The slots of S's region inside [0, m_size) that hold indeterminate bits:
\* a trivial T whose resize, or whose copy from itself, made storage part of
\* the vector without writing it.
Unwritten(S) ==
    IF S.fault # "none" \/ S.data = NULL THEN {}
    ELSE {i \in 1..Min(S.size, Len(S.heap[S.data].mem)) :
            S.heap[S.data].mem[i] = Raw}

\* Indeterminate bits are some value of T: bits says which.
Settle(S, bits) ==
    IF Unwritten(S) = {} THEN S
    ELSE [S EXCEPT !.heap[S.data].mem =
            [i \in 1..Len(@) |-> IF i \in Unwritten(S) THEN bits[i] ELSE @[i]]]

\* A member function of o that took View(o) to S.
UpdateAs(o, S, hs, rg) ==
    \E U \in {S} : \E bits \in [Unwritten(U) -> Values] :
        \E T \in {Settle(U, bits)} :
            CommitGot([m_data EXCEPT ![o] = T.data], [m_size EXCEPT ![o] = T.size],
                      [m_capacity EXCEPT ![o] = T.cap], alive, T.heap, T.fault,
                      hs, rg, NoResult)

Update(o, S, hs) == UpdateAs(o, S, hs, NotRanged)

Touch(o) == [hist EXCEPT ![o] = Mixed]

\* The step ran the operation op.
Ran(op) == failed' = IF fault' = "none" THEN "none" ELSE op

Usable(o) == fault = "none" /\ alive[o]

\* Where realloc puts the block shows only to another vector that holds the
\* same pointer.
Moves(o) ==
    IF \E p \in Objs \ {o} : alive[p] /\ m_data[p] # NULL /\ m_data[p] = m_data[o]
    THEN BOOLEAN ELSE {FALSE}

\* What malloc(0) returns matters to a request of no bytes only.
NullOnZero(n) == IF n = 0 THEN BOOLEAN ELSE {FALSE}

Fresh == [data |-> NULL, size |-> 0, cap |-> 0, heap |-> heap, fault |-> fault]

\* ------------------------------------------------------------ the actions
DefaultCtor(o) ==
    /\ fault = "none" /\ ~alive[o]
    /\ Install([m_data EXCEPT ![o] = NULL], [m_size EXCEPT ![o] = 0],
               [m_capacity EXCEPT ![o] = 0], [alive EXCEPT ![o] = TRUE],
               heap, fault, [hist EXCEPT ![o] = <<>>])
    /\ Ran("fast_vector()")

\* fast_vector(a, b) with [a, b) = values
RangeCtorFrom(o, values) ==
    /\ fault = "none" /\ ~alive[o]
    /\ \E nullOnZero \in NullOnZero(Len(values)) :
        LET S == construct_from_range(Fresh, values, nullOnZero)
        IN Commit([m_data EXCEPT ![o] = S.data], [m_size EXCEPT ![o] = S.size],
                  [m_capacity EXCEPT ![o] = S.cap], [alive EXCEPT ![o] = TRUE],
                  S.heap, S.fault, Touch(o),
                  IF \A p \in Objs \ {o} : ~alive[p]
                  THEN [NotRanged EXCEPT ![o] = "built"] ELSE NotRanged)
    /\ Ran("fast_vector(a, b)")

RangeCtor(o) ==
    \E values \in SeqsUpTo(CapLimit([alive EXCEPT ![o] = TRUE])) :
        RangeCtorFrom(o, values)

CopyCtor(o, other) ==
    /\ fault = "none" /\ ~alive[o] /\ alive[other]
    /\ \E nullOnZero \in NullOnZero(m_size[other]) :
        LET S == copy_from(Fresh, View(other), FALSE, nullOnZero)
        IN Install([m_data EXCEPT ![o] = S.data], [m_size EXCEPT ![o] = S.size],
                   [m_capacity EXCEPT ![o] = S.cap], [alive EXCEPT ![o] = TRUE],
                   S.heap, S.fault, Touch(o))
    /\ Ran("fast_vector(const&)")

\* A move constructor that leaves other.m_data as it was.
MoveCtor_keeps_source(o, other) ==
    /\ fault = "none" /\ ~alive[o] /\ alive[other]
    /\ Install([m_data EXCEPT ![o] = m_data[other]],
               [m_size EXCEPT ![o] = m_size[other]],
               [m_capacity EXCEPT ![o] = m_capacity[other]],
               [alive EXCEPT ![o] = TRUE], heap, fault,
               [p \in Objs |-> Mixed])
    /\ Ran("fast_vector(&&)")

\* fast_vector(fast_vector&& other)
MoveCtor(o, other) ==
    /\ fault = "none" /\ ~alive[o] /\ alive[other]
    /\ LET d1 == [m_data EXCEPT ![o] = m_data[other]]
           d2 == [d1 EXCEPT ![other] = NULL]
       IN Install(d2, [m_size EXCEPT ![o] = m_size[other]],
                  [m_capacity EXCEPT ![o] = m_capacity[other]],
                  [alive EXCEPT ![o] = TRUE], heap, fault,
                  [p \in Objs |-> Mixed])
    /\ Ran("fast_vector(&&)")

\* A vector is assigned to itself only while it is the one vector alive; the
\* other vector plays no part in it.
Assignable(o, other) == o = other => \A p \in Objs \ {o} : ~alive[p]

\* operator=(const fast_vector& other); other may be o itself
CopyAssign(o, other) ==
    /\ Usable(o) /\ alive[other] /\ Assignable(o, other)
    /\ \E nullOnZero \in NullOnZero(m_size[other]) :
        Update(o, copy_from(View(o), View(other), o = other, nullOnZero),
               Touch(o))
    /\ Ran("operator=(const&)")

\* operator=(fast_vector&& other); other may be o itself
MoveAssign(o, other) ==
    /\ Usable(o) /\ alive[other] /\ Assignable(o, other)
    /\ LET d1 == [m_data EXCEPT ![o] = m_data[other]]
           s1 == [m_size EXCEPT ![o] = m_size[other]]
           c1 == [m_capacity EXCEPT ![o] = m_size[other]]
           d2 == [d1 EXCEPT ![other] = NULL]
       IN Install(d2, s1, c1, alive, heap, fault, [p \in Objs |-> Mixed])
    /\ Ran("operator=(&&)")

Destroy(o) ==
    /\ Usable(o)
    /\ LET S == destroy(View(o))
       IN Install([m_data EXCEPT ![o] = NULL], [m_size EXCEPT ![o] = 0],
                  [m_capacity EXCEPT ![o] = 0], [alive EXCEPT ![o] = FALSE],
                  S.heap, S.fault, Touch(o))
    /\ Ran("~fast_vector")

\* swap(a, b)
Swap ==
    /\ Usable("a") /\ Usable("b")
    /\ LET x(f) == [o \in Objs |-> IF o = "a" THEN f["b"] ELSE f["a"]]
       IN Install(x(m_data), x(m_size), x(m_capacity), alive, heap, fault,
                  [p \in Objs |-> Mixed])
    /\ Ran("swap")

\* reserve(new_cap), called within its assertion new_cap > m_capacity
ReserveTo(o, new_cap) ==
    /\ Usable(o) /\ new_cap > m_capacity[o]
    /\ \E moves \in Moves(o) :
        Update(o, reserve(View(o), new_cap, moves), Touch(o))
    /\ Ran("reserve")

Reserve(o) ==
    \E new_cap \in (m_capacity[o] + 1)..CapLimit(alive) : ReserveTo(o, new_cap)

ShrinkToFit(o) ==
    /\ Usable(o)
    /\ \E moves \in Moves(o) :
        Update(o, shrink_to_fit(View(o), moves), Touch(o))
    /\ Ran("shrink_to_fit")

Clear(o) ==
    /\ Usable(o)
    /\ Update(o, clear(View(o)), Touch(o))
    /\ Ran("clear")

PushBack(o, value) ==
    /\ Usable(o) /\ m_size[o] < CapLimit(alive)
    /\ \E moves \in Moves(o) :
        UpdateAs(o, push_back(View(o), value, moves),
                 [hist EXCEPT ![o] = IF @ = Mixed THEN Mixed ELSE Append(@, value)],
                 [NotRanged EXCEPT ![o] = IF ranged[o] = "built" THEN "pushed" ELSE "no"])
    /\ Ran("push_back")

EmplaceBack(o, value) ==
    /\ Usable(o) /\ ~trivial /\ m_size[o] < CapLimit(alive)
    /\ \E moves \in Moves(o) :
        Update(o, emplace_back(View(o), value, moves), Touch(o))
    /\ Ran("emplace_back")

AppendValues(o, values) ==
    /\ Usable(o) /\ m_size[o] + Len(values) <= CapLimit(alive)
    /\ \E moves \in Moves(o) :
        Update(o, append(View(o), values, moves), Touch(o))
    /\ Ran("append")

PopBack(o) ==
    /\ Usable(o) /\ m_size[o] > 0
    /\ Update(o, pop_back(View(o)), Touch(o))
    /\ Ran("pop_back")

Resize(o, count) ==
    /\ Usable(o)
    /\ \E moves \in Moves(o) :
        Update(o, resize(View(o), count, moves), Touch(o))
    /\ Ran("resize")

\* memcpy of count slots onto the slot before them is defined for count < 2.
Overlap(count) == IF count >= 2 THEN BOOLEAN ELSE {FALSE}

\* erase(value); the non-trivial branch passes a count where copy_range
\* takes a pointer, so erase exists for a trivial T only.
Erase(o, value) ==
    /\ Usable(o) /\ trivial
    /\ \E position \in find_item(Elems(View(o)), value) :
       \E backward \in Overlap(m_size[o] - position - 1) :
        Update(o, erase(View(o), position, backward), Touch(o))
    /\ Ran("erase")

Next ==
    \/ \E o \in Objs : DefaultCtor(o)
    \/ \E o \in Objs : RangeCtor(o)
    \/ \E o \in Objs, other \in Objs : CopyCtor(o, other)
    \/ \E o \in Objs, other \in Objs : MoveCtor(o, other)
    \/ \E o \in Objs, other \in Objs : CopyAssign(o, other)
    \/ \E o \in Objs, other \in Objs : MoveAssign(o, other)
    \/ \E o \in Objs : Destroy(o)
    \/ Swap
    \/ \E o \in Objs : Reserve(o)
    \/ \E o \in Objs : ShrinkToFit(o)
    \/ \E o \in Objs : Clear(o)
    \/ \E o \in Objs, value \in Values : PushBack(o, value)
    \/ \E o \in Objs, value \in Values : EmplaceBack(o, value)
    \/ \E o \in Objs : \E values \in SeqsUpTo(CapLimit(alive) - m_size[o]) :
            AppendValues(o, values)
    \/ \E o \in Objs : PopBack(o)
    \/ \E o \in Objs : \E count \in 0..CapLimit(alive) : Resize(o, count)
    \/ \E o \in Objs, value \in Values : Erase(o, value)

Spec == Init /\ [][Next]_vars

\* The operations of one vector, "a", with no second vector ever alive.
NextSolo ==
    \/ DefaultCtor("a")
    \/ RangeCtor("a")
    \/ CopyAssign("a", "a")
    \/ MoveAssign("a", "a")
    \/ Destroy("a")
    \/ Reserve("a")
    \/ ShrinkToFit("a")
    \/ Clear("a")
    \/ \E value \in Values : PushBack("a", value)
    \/ \E value \in Values : EmplaceBack("a", value)
    \/ \E values \in SeqsUpTo(MaxCap - m_size["a"]) : AppendValues("a", values)
    \/ PopBack("a")
    \/ \E count \in 0..MaxCap : Resize("a", count)
    \/ \E value \in Values : Erase("a", value)

SpecSolo == Init /\ [][NextSolo]_vars

\* at(pos) on a vector
At(o, pos) ==
    /\ Usable(o)
    /\ LET R == at(View(o), pos)
       IN CommitGot(m_data, m_size, m_capacity, alive, heap, R.after.fault, hist,
                    NotRanged, R.result)
    /\ Ran("at")

\* One vector and its callers' checked reads.
NextAt ==
    \/ NextSolo
    \/ \E pos \in 0..MaxCap : At("a", pos)

SpecAt == Init /\ [][NextAt]_vars

TypeOK ==
    /\ trivial \in BOOLEAN
    /\ \A o \in Objs : m_data[o] \in {NULL} \cup RegionIds
    /\ \A o \in Objs : m_size[o] \in 0..MaxCap /\ m_capacity[o] \in 0..MaxCap
    /\ leaked \in BOOLEAN
    /\ ranged \in [Objs -> {"no", "built", "pushed"}]
    /\ got.kind \in {"none", "range_error", "element"}

\* ----------------------------------------------------------------- claims
Elements(o) == Elems(View(o))

Held(o) == IF m_data[o] = NULL THEN 0 ELSE Len(heap[m_data[o]].mem)

\* C1: the region a vector holds has room for capacity() elements, and no
\* operation writes a slot outside the region it holds.
C1_RegionHoldsCapacity ==
    /\ \A o \in Objs : alive[o] /\ m_data[o] # NULL => Held(o) >= m_capacity[o]
    /\ fault # "oob_write"

\* C2: 0 <= size() <= capacity() for every vector, in every reachable state.
C2_SizeWithinCapacity ==
    \A o \in Objs : 0 <= m_size[o] /\ m_size[o] <= m_capacity[o]

\* A full vector of two or more elements next to a moved-from vector that
\* still reports elements.
C2_Witness ==
    \E o \in Objs, p \in Objs :
        /\ o # p /\ alive[o] /\ alive[p]
        /\ m_size[o] = m_capacity[o] /\ m_size[o] >= 2
        /\ m_data[p] = NULL /\ m_size[p] >= 1

C4_ShrinkToFitIdempotent ==
    [][\A o \in Objs :
        (ShrinkToFit(o) /\ m_size[o] > 0 /\ fault' = "none") =>
            /\ m_capacity'[o] = m_size'[o]
            /\ m_size'[o] = m_size[o]
            /\ Elements(o)' = Elements(o)]_vars

\* C5: move construction and move assignment leave the source with
\* size() == 0 and no region.
C5_MovedFromIsEmpty ==
    [][\A o \in Objs, other \in Objs :
        (o # other /\ (MoveCtor(o, other) \/ MoveAssign(o, other))) =>
            /\ m_size'[other] = 0
            /\ m_data'[other] = NULL]_vars

\* C6: no element is destroyed twice and no region is released twice, in
\* particular when a moved-from vector and the vector that took its region
\* are destroyed, in either order.
C6_NoDoubleRelease ==
    fault \notin {"double_free", "bad_destroy", "use_after_free"}

\* A moved-from vector (no region, elements still counted) outliving the
\* destruction of the other vector.
C6_Witness ==
    \E o \in Objs, p \in Objs :
        /\ o # p /\ alive[o] /\ ~alive[p]
        /\ m_data[o] = NULL /\ m_size[o] > 0
        /\ fault = "none"

\* C7: no step leaves a region that was acquired and not released out of
\* every vector's reach, and no region is released twice.
C7_EveryRegionReleasedOnce ==
    ~leaked /\ fault # "double_free"

Occurs(s, v) == \E i \in 1..Len(s) : s[i] = v

First(s, v) == CHOOSE i \in 1..Len(s) : s[i] = v /\ \A j \in 1..(i - 1) : s[j] # v

RemoveFirst(s, v) ==
    IF Occurs(s, v)
    THEN SubSeq(s, 1, First(s, v) - 1) \o SubSeq(s, First(s, v) + 1, Len(s))
    ELSE s

\* C8: erase(v) on a vector whose elements lie in its region removes the first
\* occurrence of v and nothing else, keeps the order of the others and leaves
\* capacity() alone; with no occurrence of v nothing changes.
C8_EraseFirstOccurrence ==
    [][\A o \in Objs, value \in Values :
        (Erase(o, value) /\ ~Occurs(Elements(o), Raw) /\ fault' = "none") =>
            /\ Elements(o)' = RemoveFirst(Elements(o), value)
            /\ m_capacity'[o] = m_capacity[o]]_vars

\* C9: append(values, count) on a vector that holds a region or is empty
\* never writes outside the region and leaves size() == old size + count,
\* capacity() >= size() and the old elements followed by values.
C9_AppendInBounds ==
    [][\A o \in Objs, values \in SeqsUpTo(MaxCap) :
        (AppendValues(o, values) /\ (m_data[o] # NULL \/ m_capacity[o] = 0)) =>
            /\ fault' = "none"
            /\ m_size'[o] = m_size[o] + Len(values)
            /\ m_capacity'[o] >= m_size'[o]
            /\ Elements(o)' = Elements(o) \o values]_vars

\* C10: resize(count) completes with defined behaviour and leaves
\* size() == count and capacity() >= count; the first count elements when
\* count < size(); every old element in its old position when
\* count > size() (a position below size() that held no readable element,
\* in a vector left without a region or with a region shorter than size(),
\* has nothing to preserve); and everything as it was when count == size().
C10_Resize ==
    [][\A o \in {"a"}, count \in 0..MaxCap :
        Resize(o, count) =>
            /\ fault' = "none"
            /\ m_size'[o] = count
            /\ m_capacity'[o] >= count
            /\ count < m_size[o] => Elements(o)' = Prefix(Elements(o), count)
            /\ count > m_size[o] =>
                \A i \in 1..m_size[o] :
                    Elements(o)[i] # Raw => Elements(o)'[i] = Elements(o)[i]
            /\ count = m_size[o] =>
                /\ m_capacity'[o] = m_capacity[o]
                /\ Elements(o)' = Elements(o)
                /\ Held(o)' = Held(o)]_vars

\* Two different elements in front of a slot that a growing resize exposed
\* beyond the region shrink_to_fit left: only resize makes size() exceed
\* the slots of the region.
C10_Witness ==
    \E o \in Objs :
        /\ alive[o] /\ trivial /\ fault = "none"
        /\ m_size[o] = 3 /\ Held(o) = 2
        /\ Elements(o)[1] # Elements(o)[2]

C12_DeepCopy ==
    [][\A o \in Objs : \A other \in Objs \ {o} :
        (CopyCtor(o, other) \/ CopyAssign(o, other)) =>
            /\ fault' = "none"
            /\ m_size'[o] = m_size[other]
            /\ m_capacity'[o] = m_size[other]
            /\ Elements(o)' = Elements(other)
            /\ m_size'[other] = m_size[other]
            /\ m_capacity'[other] = m_capacity[other]
            /\ Elements(other)' = Elements(other)
            /\ m_data'[o] # NULL => m_data'[o] # m_data'[other]]_vars

\* C13: at(pos) throws the range error for every pos >= size() and leaves
\* size(), capacity() and the elements as they were; for every pos < size()
\* it returns the element at index pos, with defined behaviour.
C13_AtChecked ==
    [][\A pos \in 0..MaxCap :
        At("a", pos) =>
            /\ fault' = "none"
            /\ m_size'["a"] = m_size["a"]
            /\ m_capacity'["a"] = m_capacity["a"]
            /\ Elements("a")' = Elements("a")
            /\ pos >= m_size["a"] => got'.kind = "range_error"
            /\ pos < m_size["a"] =>
                got' = [kind |-> "element", value |-> Elements("a")[pos + 1]]]_vars

\* C14: a vector whose capacity() is 0 holds no region, in every reachable
\* state.
C14_NoRegionAtZeroCapacity ==
    \A o \in Objs : alive[o] /\ m_capacity[o] = 0 => m_data[o] = NULL

\* C15: move construction and move assignment from another vector give the
\* destination the source's region, the source's size() and the source's
\* capacity() from before the move, and the source's former elements in
\* order.
C15_MoveTransfers ==
    [][\A o \in Objs : \A other \in Objs \ {o} :
        (MoveCtor(o, other) \/ MoveAssign(o, other)) =>
            /\ fault' = "none"
            /\ m_size'[o] = m_size[other]
            /\ m_capacity'[o] = m_capacity[other]
            /\ Held(o)' = Held(other)
            /\ Elements(o)' = Elements(other)]_vars

\* C16: a push_back or emplace_back made when size() == capacity() completes
\* with capacity() == old capacity * 2 + 1, and one made when
\* size() < capacity() completes with capacity() unchanged.
C16_GrowthTrigger ==
    [][\A o \in Objs, value \in Values :
        (PushBack(o, value) \/ EmplaceBack(o, value)) =>
            /\ fault' = "none"
            /\ m_size[o] = m_capacity[o] =>
                    m_capacity'[o] = m_capacity[o] * grow_factor + 1
            /\ m_size[o] < m_capacity[o] => m_capacity'[o] = m_capacity[o]]_vars

\* C17: reserve(new_cap) with new_cap > capacity() completes with
\* capacity() == new_cap and leaves size() and the elements, their values
\* and their order, as they were.
C17_ReserveFrame ==
    [][\A o \in Objs, new_cap \in 1..MaxCap :
        ReserveTo(o, new_cap) =>
            /\ fault' = "none"
            /\ m_capacity'[o] = new_cap
            /\ m_size'[o] = m_size[o]
            /\ \A i \in 1..m_size[o] :
                    Elements(o)[i] # Raw => Elements(o)'[i] = Elements(o)[i]]_vars

\* C18: clear(), pop_back() on a non-empty vector and erase(value) complete
\* without changing capacity() or the region held; clear() leaves
\* size() == 0, and pop_back() leaves size() one smaller and the first
\* size() - 1 elements as they were.
C18_ShrinkingFrame ==
    [][\A o \in Objs :
        /\ (Clear(o) \/ PopBack(o) \/ \E value \in Values : Erase(o, value)) =>
                /\ fault' = "none"
                /\ m_capacity'[o] = m_capacity[o]
                /\ m_data'[o] = m_data[o]
                /\ Held(o)' = Held(o)
        /\ Clear(o) => m_size'[o] = 0
        /\ PopBack(o) =>
                /\ m_size'[o] = m_size[o] - 1
                /\ Elements(o)' = Prefix(Elements(o), m_size[o] - 1)]_vars

\* C19: an append(values, count) called with size() + count <= capacity(),
\* the exact fit size() + count == capacity() included, completes with
\* capacity() unchanged.
C19_AppendGrowsOnlyWhenNeeded ==
    [][\A o \in Objs, values \in SeqsUpTo(MaxCap) :
        (AppendValues(o, values) /\ m_size[o] + Len(values) <= m_capacity[o]) =>
            /\ fault' = "none"
            /\ m_capacity'[o] = m_capacity[o]]_vars

\* C20: copy-assigning a vector to itself completes and leaves its size()
\* and its elements as they were.
C20_SelfCopyAssign ==
    [][CopyAssign("a", "a") =>
            /\ fault' = "none"
            /\ m_size'["a"] = m_size["a"]
            /\ Elements("a")' = Elements("a")]_vars

====
